---- MODULE Spec2Model ----
(***************************************************************************)
(* tfitpy: resumable, verified download / archive extraction               *)
(* (src/src/tfitpy/utils.py) and configuration resolution                  *)
(* (src/src/tfitpy/utils.py, src/src/tfitpy/config.py).                    *)
(*                                                                         *)
(* The file system is part of the state: the directories that exist, the  *)
(* regular files with their bytes, and the extraction directories with    *)
(* their entries.  The HTTP server is the environment: every request      *)
(* draws its outcome (connection error, error status, a 206 answer that   *)
(* honours the Range header, a 200 answer that ignores it) from the       *)
(* outcomes HTTP allows.                                                   *)
(***************************************************************************)
EXTENDS Integers, Sequences, FiniteSets, TLC

\* ---------------------------------------------------------------- bounds
ResLen == 3          \* length in bytes of every served resource
MaxChunk == 2        \* largest chunk_size a caller passes
MaxFaults == 2       \* transient transport faults in the fair specification

\* ------------------------------------------------------------- constants
Procs == {1, 2}      \* invocation contexts (callers)
SeqProcs == {1}      \* the single caller of the sequential specifications

NoneDir == "None"                \* base_dir=None
DEFAULT_DATA_DIR == "/default"   \* platformdirs.user_data_dir(TOOL_NAME, TOOL_AUTHOR)
BaseDirs == {NoneDir, DEFAULT_DATA_DIR}

FileUrl == "file_url"
ZipUrl == "zip_url"
CorruptUrl == "corrupt_url"
Urls == {FileUrl, ZipUrl, CorruptUrl}
DataFile == "data.txt"
Folder == "biogrid"
NoName == ""
NoPath == <<"", "">>

\* The bytes the server holds for a URL; the three resources share no byte.
UrlBase(url) == IF url = FileUrl THEN 0 ELSE IF url = ZipUrl THEN 10 ELSE 20
Resource(url) == [i \in 1..ResLen |-> UrlBase(url) + i]

\* The entries of the archive served at ZipUrl.
Entries == {"biogrid_file", "b.txt", "c.txt"}

\* The disk holds files of at most this many bytes; a write past it fails.
DiskCapacity == 2 * ResLen + 1

Min(a, b) == IF a < b THEN a ELSE b
IsPrefix(s, t) == Len(s) <= Len(t) /\ SubSeq(t, 1, Len(s)) = s
IsSuffix(s, t) == Len(s) <= Len(t) /\ SubSeq(t, Len(t) - Len(s) + 1, Len(t)) = s

\* ------------------------------------------------------------ hashing
\* hashlib digest of a byte string: collision free, never the empty string.
Digest(bytes) == <<Len(bytes)>> \o bytes

\* expected_hash values: None, the empty string, or a hex digest.
NoHash == [given |-> FALSE, hex |-> <<>>]
EmptyHash == [given |-> TRUE, hex |-> <<>>]
HashOf(bytes) == [given |-> TRUE, hex |-> Digest(bytes)]
WrongBytes == <<99>>
ExpectedHashes(url) == {NoHash, EmptyHash, HashOf(Resource(url)), HashOf(WrongBytes)}
ZipHashes(url) == {NoHash, HashOf(Resource(url)), HashOf(WrongBytes)}

\* Python truthiness of expected_hash (None and "" are falsy).
Truthy(eh) == eh.given /\ eh.hex # <<>>

\* verify_hash(path, expected_hash) on the bytes of the file.
verify_hash_Always(bytes, eh) == TRUE
verify_hash(bytes, eh) == Digest(bytes) = eh.hex

VARIABLES
    dirs,        \* directories that exist
    files,       \* existing regular files: <<dir, name>> -> bytes
    extracted,   \* existing extraction directories: <<dir, folder>> -> entries
    pc,          \* position of each caller
    call,        \* arguments and locals of each caller's current/last call
    ret,         \* outcome of each caller's last finished call
    nreq,        \* HTTP requests issued by the current/last top-level call
    budget,      \* transient faults the fair specification still allows
    DEFAULT_CONFIG, \* tfitpy.config.DEFAULT_CONFIG (module-level dict)
    META,        \* META of each adapter module (module-level dicts)
    userHeap,    \* the caller's user_config object of the last resolution
    resolved,    \* result of the last resolve_module_config call
    history,     \* first result seen for each resolution input
    ctx,         \* click context of the command group (ctx.obj and echo)
    run,         \* the library or command call in progress above the downloads
    pairs        \* arguments and result of generate_pairs

dlvars == <<dirs, files, extracted, pc, call, ret, nreq, budget>>
cfgvars == <<DEFAULT_CONFIG, META, userHeap, resolved, history>>
appvars == <<ctx, run, pairs>>
vars == <<dirs, files, extracted, pc, call, ret, nreq, budget,
          DEFAULT_CONFIG, META, userHeap, resolved, history, ctx, run, pairs>>

\* ------------------------------------------------------- file system
WriteFile(fs, path, bytes) ==
    [q \in DOMAIN fs \cup {path} |-> IF q = path THEN bytes ELSE fs[q]]
Unlink_Keep(fs, path) == fs
Unlink(fs, path) == [q \in DOMAIN fs \ {path} |-> fs[q]]

\* f.write(chunk) at file position pos; a gap left by a truncation reads 0.
WriteAt(bytes, pos, chunk) ==
    [i \in 1..(IF pos + Len(chunk) > Len(bytes) THEN pos + Len(chunk) ELSE Len(bytes)) |->
        IF i > pos /\ i <= pos + Len(chunk) THEN chunk[i - pos]
        ELSE IF i <= Len(bytes) THEN bytes[i] ELSE 0]

\* ------------------------------------------------------- call frames
NoRet == [kind |-> "none", exc |-> "", path |-> NoPath]
Returned(path) == [kind |-> "return", exc |-> "", path |-> path]
Raised(e) == [kind |-> "raise", exc |-> e, path |-> NoPath]

BlankCall == [fn |-> "none", url |-> "", filename |-> NoName, expected_hash |-> NoHash,
              chunk_size |-> 1, base_dir |-> "", extract_folder |-> NoName,
              resume_byte_pos |-> 0, mode |-> "", pos |-> 0, body |-> <<>>]

\* chunk_size default of download_file (8192, here at the scale of ResLen).
DefaultChunkSize == MaxChunk

\* base_dir = DEFAULT_DATA_DIR when None.
BaseDir(base_dir) == IF base_dir = NoneDir THEN DEFAULT_DATA_DIR ELSE base_dir

\* path = base_dir / filename
DfPath(c) == <<c.base_dir, c.filename>>
\* extract_path = base_dir / extract_folder
ExtractPath(c) == <<c.base_dir, c.extract_folder>>
\* zip_path.name = f"temp_{extract_folder}.zip"
ZipName(folder) == "temp_" \o folder \o ".zip"

\* The "already verified" test of download_file.
AlreadySatisfied_HashOnly(fs, c) ==
    /\ DfPath(c) \in DOMAIN fs
    /\ c.expected_hash.given
    /\ verify_hash(fs[DfPath(c)], c.expected_hash)
AlreadySatisfied(fs, c) ==
    /\ DfPath(c) \in DOMAIN fs
    /\ (~c.expected_hash.given \/ verify_hash(fs[DfPath(c)], c.expected_hash))

\* resume_byte_pos = path.stat().st_size if path.exists() else 0
ResumeBytePos(fs, c) == IF DfPath(c) \in DOMAIN fs THEN Len(fs[DfPath(c)]) ELSE 0

\* open(path, "ab" if resume_byte_pos else "wb")
OpenMode_Write(n) == "wb"
OpenMode(n) == IF n # 0 THEN "ab" ELSE "wb"
OpenFile(fs, path, mode) ==
    IF mode = "ab" /\ path \in DOMAIN fs THEN fs ELSE WriteFile(fs, path, <<>>)

\* What the server streams for a request with "Range: bytes=n-" (n > 0), or
\* without a Range header (n = 0).  A server may honour Range (206) or
\* ignore it and send the whole resource (200); the code reads either.
ServerBody(url, n, honoured) ==
    IF honoured THEN SubSeq(Resource(url), n + 1, ResLen) ELSE Resource(url)

\* The archive library accepts a file that ends with a whole archive image.
IsZipFile(bytes) == IsSuffix(Resource(ZipUrl), bytes)

\* ----------------------------------------------- download_file, steps
Finish(p, r) ==
    /\ pc' = [pc EXCEPT ![p] = "idle"]
    /\ ret' = [ret EXCEPT ![p] = r]

\* A transient transport fault; the fair specification counts them.
Fault(counted) ==
    IF counted THEN budget > 0 /\ budget' = budget - 1 ELSE budget' = budget

\* download_file up to the request: the early return, or the resume offset
\* and the parent directory.  fs, ds: the file system the call finds.
DfBegin(p, c, fs, ds) ==
    IF AlreadySatisfied(fs, c)
    THEN /\ files' = fs
         /\ dirs' = ds
         /\ call' = [call EXCEPT ![p] = c]
         /\ IF c.fn = "download_zip"
            THEN /\ pc' = [pc EXCEPT ![p] = "dz_extract"]
                 /\ ret' = [ret EXCEPT ![p] = NoRet]
            ELSE Finish(p, Returned(DfPath(c)))
    ELSE /\ files' = fs
         /\ dirs' = ds \cup {c.base_dir}
         /\ call' = [call EXCEPT ![p] =
                        [c EXCEPT !.resume_byte_pos = ResumeBytePos(fs, c),
                                  !.mode = OpenMode(ResumeBytePos(fs, c)),
                                  !.pos = 0, !.body = <<>>]]
         /\ pc' = [pc EXCEPT ![p] = "df_request"]
         /\ ret' = [ret EXCEPT ![p] = NoRet]

download_file(p, url, filename, expected_hash, chunk_size, base_dir) ==
    /\ pc[p] = "idle"
    /\ nreq' = [nreq EXCEPT ![p] = 0]
    /\ DfBegin(p, [BlankCall EXCEPT !.fn = "download_file", !.url = url,
                      !.filename = filename, !.expected_hash = expected_hash,
                      !.chunk_size = chunk_size, !.base_dir = BaseDir(base_dir)],
               files, dirs)
    /\ UNCHANGED <<extracted, budget>>
    /\ UNCHANGED <<cfgvars, appvars>>

\* A failed request: nothing catches the exception of requests.get or of
\* r.raise_for_status(), so it leaves download_file.
RequestFailed_Retry(p, e) == UNCHANGED <<pc, ret>>
RequestFailed(p, e) == Finish(p, Raised(e))

\* requests.get(...), open(path, mode), r.raise_for_status()
DfRequest(p, outcome, counted) ==
    /\ pc[p] = "df_request"
    /\ LET c == call[p]
           n == c.resume_byte_pos
           opened == OpenFile(files, DfPath(c), c.mode)
       IN  /\ nreq' = [nreq EXCEPT ![p] = @ + 1]
           /\ CASE outcome = "connect_error" ->
                     \* requests.get raises before the file is opened
                     /\ Fault(counted)
                     /\ files' = files
                     /\ call' = call
                     /\ RequestFailed(p, "ConnectionError")
                [] outcome = "http_error" ->
                     \* 4xx/5xx: the file is already opened (created or truncated)
                     /\ Fault(counted)
                     /\ files' = opened
                     /\ call' = call
                     /\ RequestFailed(p, "HTTPError")
                [] outcome = "range_honoured" ->
                     /\ budget' = budget
                     /\ files' = opened
                     /\ IF n >= ResLen
                        THEN \* 416 Range Not Satisfiable
                             /\ call' = call
                             /\ RequestFailed(p, "HTTPError")
                        ELSE /\ call' = [call EXCEPT ![p].body = ServerBody(c.url, n, TRUE)]
                             /\ pc' = [pc EXCEPT ![p] = "df_stream"]
                             /\ ret' = ret
                [] outcome = "range_ignored" ->
                     /\ n # 0
                     /\ budget' = budget
                     /\ files' = opened
                     /\ call' = [call EXCEPT ![p].body = ServerBody(c.url, n, FALSE)]
                     /\ pc' = [pc EXCEPT ![p] = "df_stream"]
                     /\ ret' = ret
    /\ UNCHANGED <<dirs, extracted>>
    /\ UNCHANGED <<cfgvars, appvars>>

\* One turn of the loop over r.iter_content(chunk_size): f.write(chunk).
DfChunk(p) ==
    /\ pc[p] = "df_stream"
    /\ call[p].body # <<>>
    /\ LET c == call[p]
           k == Min(c.chunk_size, Len(c.body))
           chunk == SubSeq(c.body, 1, k)
           path == DfPath(c)
           at == IF c.mode = "ab" /\ path \in DOMAIN files
                 THEN Len(files[path]) ELSE c.pos
       IN  IF path \in DOMAIN files /\ at + k > DiskCapacity
           THEN \* disk full
                /\ files' = files
                /\ call' = call
                /\ Finish(p, Raised("OSError"))
           ELSE /\ files' = IF path \in DOMAIN files
                            THEN WriteFile(files, path, WriteAt(files[path], at, chunk))
                            ELSE files
                /\ call' = [call EXCEPT ![p].body = SubSeq(c.body, k + 1, Len(c.body)),
                                        ![p].pos = c.pos + k]
                /\ UNCHANGED <<pc, ret>>
    /\ UNCHANGED <<dirs, extracted, nreq, budget>>
    /\ UNCHANGED <<cfgvars, appvars>>

\* The connection breaks while the body is streamed.
DfStreamFail(p, counted) ==
    /\ pc[p] = "df_stream"
    /\ call[p].body # <<>>
    /\ Fault(counted)
    /\ Finish(p, Raised("ConnectionError"))
    /\ UNCHANGED <<dirs, files, extracted, call, nreq>>
    /\ UNCHANGED <<cfgvars, appvars>>

\* After the with block: the hash check and the return.
DfFinish(p) ==
    /\ pc[p] = "df_stream"
    /\ call[p].body = <<>>
    /\ LET c == call[p]
           path == DfPath(c)
       IN  IF Truthy(c.expected_hash) /\ path \notin DOMAIN files
           THEN Finish(p, Raised("FileNotFoundError"))
           ELSE IF Truthy(c.expected_hash) /\ ~verify_hash(files[path], c.expected_hash)
           THEN Finish(p, Raised("ValueError"))
           ELSE IF c.fn = "download_zip"
           THEN pc' = [pc EXCEPT ![p] = "dz_extract"] /\ ret' = ret
           ELSE Finish(p, Returned(path))
    /\ UNCHANGED <<dirs, files, extracted, call, nreq, budget>>
    /\ UNCHANGED <<cfgvars, appvars>>

\* ------------------------------------------------ download_zip, steps
\* extract_path.exists() and any(extract_path.iterdir())
ExtractReady_Complete(ex, c) ==
    ExtractPath(c) \in DOMAIN ex /\ ex[ExtractPath(c)] = Entries
ExtractReady_Exists(ex, c) == ExtractPath(c) \in DOMAIN ex
ExtractReady(ex, c) ==
    ExtractPath(c) \in DOMAIN ex /\ ex[ExtractPath(c)] # {}

\* download_zip up to and including its call of download_file.
download_zip(p, url, extract_folder, expected_hash, base_dir) ==
    /\ pc[p] = "idle"
    /\ nreq' = [nreq EXCEPT ![p] = 0]
    /\ LET c == [BlankCall EXCEPT !.fn = "download_zip", !.url = url,
                    !.filename = ZipName(extract_folder),
                    !.expected_hash = expected_hash,
                    !.chunk_size = DefaultChunkSize,
                    !.base_dir = BaseDir(base_dir),
                    !.extract_folder = extract_folder]
       IN  IF ExtractReady(extracted, c)
           THEN /\ call' = [call EXCEPT ![p] = c]
                /\ Finish(p, Returned(ExtractPath(c)))
                /\ UNCHANGED <<dirs, files>>
           ELSE DfBegin(p, c, Unlink(files, DfPath(c)), dirs)
    /\ UNCHANGED <<extracted, budget>>
    /\ UNCHANGED <<cfgvars, appvars>>

\* extract_path.mkdir, ZipFile(zip_path).extractall, zip_path.unlink
DzExtract(p, done) ==
    /\ pc[p] = "dz_extract"
    /\ LET c == call[p]
           zip == DfPath(c)
           dir == ExtractPath(c)
           old == IF dir \in DOMAIN extracted THEN extracted[dir] ELSE {}
           made(es) == [d \in DOMAIN extracted \cup {dir} |->
                           IF d = dir THEN old \cup es ELSE extracted[d]]
       IN  /\ dirs' = dirs \cup {c.base_dir}
           /\ IF zip \notin DOMAIN files
              THEN /\ done = Entries
                   /\ extracted' = made({})
                   /\ files' = files
                   /\ Finish(p, Raised("FileNotFoundError"))
              ELSE IF ~IsZipFile(files[zip])
              THEN /\ done = Entries
                   /\ extracted' = made({})
                   /\ files' = files
                   /\ Finish(p, Raised("BadZipFile"))
              ELSE IF done # Entries
              THEN \* extractall stops part-way (I/O error)
                   /\ extracted' = made(done)
                   /\ files' = files
                   /\ Finish(p, Raised("OSError"))
              ELSE /\ extracted' = made(Entries)
                   /\ files' = Unlink(files, zip)
                   /\ Finish(p, Returned(dir))
    /\ UNCHANGED <<call, nreq, budget>>
    /\ UNCHANGED <<cfgvars, appvars>>

\* ------------------------------------------------ configuration values
\* Python values met in a configuration dict, tagged with their type.
EmptyDict == [k \in {} |-> ""]
Str(s) == [t |-> "str", s |-> s, d |-> EmptyDict]
Dict(d) == [t |-> "dict", s |-> "", d |-> d]
PathOf(s) == [t |-> "path", s |-> s, d |-> EmptyDict]
IntVal == [t |-> "int", s |-> "5", d |-> EmptyDict]

\* user_config: None or a dict.
NoneConfig == [none |-> TRUE, d |-> EmptyDict]
Config(d) == [none |-> FALSE, d |-> d]

RecognizedModules == {"hippie", "biomart", "stringdb", "biogrid"}

\* META of the four adapters (values are opaque to the resolver).
HippieMeta == [url |-> "hippie_url", about |-> "hippie_about",
               columns |-> "hippie_columns", filename |-> "hippie_ppi.txt"]
BiomartMeta == [url |-> "biomart_url", about |-> "biomart_about",
                columns |-> "biomart_columns", filename |-> "biomart_gene_mapping.txt"]
StringdbMeta == [about |-> "string_about", ppi |-> "string_ppi", protein |-> "string_protein"]
BiogridMeta == [url |-> ZipUrl, about |-> "biogrid_about", folder_name |-> "biogrid",
                file |-> "biogrid_file", columns |-> "biogrid_columns"]
InitMeta == [m \in RecognizedModules |->
                IF m = "hippie" THEN HippieMeta
                ELSE IF m = "biomart" THEN BiomartMeta
                ELSE IF m = "stringdb" THEN StringdbMeta
                ELSE BiogridMeta]

\* expand_path: os.path.expanduser and os.path.expandvars.
HomeDir == "/home/u"
expand_path_Raw(path_str) == path_str
expand_path(path_str) ==
    IF path_str = "~/d" THEN HomeDir \o "/d"
    ELSE IF path_str = "$HOME/d" THEN HomeDir \o "/d"
    ELSE path_str

\* str.strip() is non-empty
StripNonEmpty(s) == s \notin {"", "  "}

\* Directories mkdir cannot create.
Unwritable == {"/proc/x"}

\* dict.update: the right operand wins key by key.
Update(a, b) == [k \in DOMAIN a \cup DOMAIN b |-> IF k \in DOMAIN b THEN b[k] ELSE a[k]]
UpdateReversed(a, b) == [k \in DOMAIN a \cup DOMAIN b |-> IF k \in DOMAIN a THEN a[k] ELSE b[k]]

\* 1) cfg = DEFAULT_CONFIG.copy(); cfg.update(user_config) if user_config
Overlay(dc, uc) == IF ~uc.none /\ DOMAIN uc.d # {} THEN Update(dc, uc.d) ELSE dc

\* 2) whether cfg["data_path"] is a non-blank string
HasUserPath(cfg) ==
    /\ "data_path" \in DOMAIN cfg
    /\ cfg["data_path"].t = "str"
    /\ StripNonEmpty(cfg["data_path"].s)
DataPath(cfg) ==
    IF HasUserPath(cfg) THEN expand_path(cfg["data_path"].s) ELSE DEFAULT_DATA_DIR

\* data_path.mkdir(parents=True, exist_ok=True): only on the user branch.
Mkdir(cfg, ds) == IF HasUserPath(cfg) THEN ds \cup {DataPath(cfg)} ELSE ds

\* 3) section = cfg.get(module_key); {} unless a dict;
\*    merged_section = module_defaults.copy(); merged_section.update(section)
Section(cfg, module_key) ==
    IF module_key \in DOMAIN cfg /\ cfg[module_key].t = "dict"
    THEN cfg[module_key].d ELSE EmptyDict
MergedSection_DefaultsWin(cfg, module_key, module_defaults) ==
    UpdateReversed(module_defaults, Section(cfg, module_key))
MergedSection_UserOnly(cfg, module_key, module_defaults) ==
    Section(cfg, module_key)
MergedSection(cfg, module_key, module_defaults) ==
    Update(module_defaults, Section(cfg, module_key))

\* The dict resolve_module_config returns.
ResolvedConfig(dc, uc, module_key, module_defaults) ==
    LET cfg == Overlay(dc, uc)
    IN  Update(cfg, [k \in {"data_path", module_key} |->
            IF k = "data_path" THEN PathOf(DataPath(cfg))
            ELSE Dict(MergedSection(cfg, module_key, module_defaults))])

\* DEFAULT_CONFIG after the call: cfg is a copy, so no write of the call
\* reaches the module-level dict.
DefaultConfigAfter_Aliased(dc, cfg) == cfg
DefaultConfigAfter(dc, cfg) == dc

\* module_defaults after the call: merged_section is a copy.
ModuleDefaultsAfter_InPlace(module_defaults, merged) == merged
ModuleDefaultsAfter(module_defaults, merged) == module_defaults

\* user_config after the call: only read.
UserConfigAfter(uc) == uc

\* The record kept of a resolution: its inputs and its result.  repeat: the
\* same inputs were resolved before and are held in history; between:
\* another resolution ran since history was taken.
NoResolution == [called |-> FALSE, returned |-> FALSE, user_config |-> NoneConfig,
                 module_key |-> "", cfg |-> EmptyDict, default_dir_used |-> FALSE,
                 repeat |-> FALSE, between |-> FALSE]

\* resolve_module_config(user_config, module_key, module_defaults)
resolve_module_config(uc, module_key, module_defaults, keep) ==
    /\ \A p \in Procs : pc[p] = "idle"
    /\ LET cfg0 == Overlay(DEFAULT_CONFIG, uc)
           cfg == ResolvedConfig(DEFAULT_CONFIG, uc, module_key, module_defaults)
           fails == HasUserPath(cfg0) /\ DataPath(cfg0) \in Unwritable
           same == /\ history.called
                   /\ history.user_config = uc
                   /\ history.module_key = module_key
           this == [called |-> TRUE, returned |-> ~fails, user_config |-> uc,
                    module_key |-> module_key,
                    cfg |-> IF fails THEN EmptyDict ELSE cfg,
                    default_dir_used |-> ~HasUserPath(cfg0),
                    repeat |-> same, between |-> FALSE]
       IN  /\ dirs' = IF fails THEN dirs ELSE Mkdir(cfg0, dirs)
           /\ resolved' = this
           /\ history' = IF keep THEN this
                         ELSE [history EXCEPT !.between = @ \/ (history.called /\ ~same)]
           /\ DEFAULT_CONFIG' = IF fails THEN DEFAULT_CONFIG
                                ELSE DefaultConfigAfter(DEFAULT_CONFIG, cfg)
           /\ META' = [META EXCEPT ![module_key] =
                          ModuleDefaultsAfter(module_defaults,
                              MergedSection(cfg0, module_key, module_defaults))]
           /\ userHeap' = UserConfigAfter(uc)
    /\ UNCHANGED <<files, extracted, pc, call, ret, nreq, budget>>
    /\ UNCHANGED appvars

\* The environment removes a directory with everything under it.
RemoveDir(d) ==
    /\ d \in dirs
    /\ \A p \in Procs : pc[p] = "idle"
    /\ dirs' = dirs \ {d}
    /\ files' = [q \in {x \in DOMAIN files : x[1] # d} |-> files[q]]
    /\ extracted' = [q \in {x \in DOMAIN extracted : x[1] # d} |-> extracted[q]]
    /\ UNCHANGED <<pc, call, ret, nreq, budget>>
    /\ UNCHANGED <<cfgvars, appvars>>

\* ------------------------------------------------------------- inputs
DataPathInputs == {"", "  ", "~/d", "/proc/x"}
CustomSection == Dict([k \in {"filename"} |-> "custom.txt"])
ExtraSection == Dict([k \in {"filename", "extra"} |->
                        IF k = "filename" THEN "custom.txt" ELSE "1"])
BiomartSection == Dict([k \in {"filename"} |-> "bm.txt"])

One(k, v) == [x \in {k} |-> v]

UserConfigs ==
    {NoneConfig, Config(EmptyDict)}
    \cup {Config(One("data_path", Str(x))) : x \in DataPathInputs}
    \cup {Config(One("data_path", IntVal)),
          Config(One("hippie", Str("notadict"))),
          Config(Update(One("data_path", Str("/tmp/x")), One("hippie", CustomSection))),
          Config(Update(One("biomart", BiomartSection), One("hippie", ExtraSection))),
          Config(Update(One("data_path", Str("~/d")), One("biomart", BiomartSection)))}

\* ------------------------------------------------------ generate_pairs
MaxGenes == 3
Genes == {"A", "B", "C"}

\* Sequences over S of length at most n.
SeqsUpTo(S, n) == UNION {[1..k -> S] : k \in 0..n}

\* The index pairs <<i, j>> of a list of length n, in the order of
\* itertools.product: i is the slow index.
IndexPairs(n) == [k \in 1..(n * n) |-> <<((k - 1) \div n) + 1, ((k - 1) % n) + 1>>]

\* [(a, b) for a, b in product(module, module) if a != b]
OrderedPairs(module) ==
    LET ix == SelectSeq(IndexPairs(Len(module)),
                        LAMBDA q : module[q[1]] # module[q[2]])
    IN  [k \in 1..Len(ix) |-> <<module[ix[k][1]], module[ix[k][2]]>>]

\* list(combinations(module, 2)): positions i < j, whatever the values.
Combinations(module) ==
    LET ix == SelectSeq(IndexPairs(Len(module)), LAMBDA q : q[1] < q[2])
    IN  [k \in 1..Len(ix) |-> <<module[ix[k][1]], module[ix[k][2]]>>]

\* DataFrame.drop_duplicates(ignore_index=True): the first of equal rows stays.
DropDuplicates(rows) ==
    LET ix == SelectSeq([k \in 1..Len(rows) |-> k],
                        LAMBDA k : \A j \in 1..(k - 1) : rows[j] # rows[k])
    IN  [k \in 1..Len(ix) |-> rows[ix[k]]]

\* The rows of the DataFrame generate_pairs returns.
PairRows(module, save_order, duplicate_pairs) ==
    LET raw == IF save_order THEN OrderedPairs(module) ELSE Combinations(module)
    IN  IF duplicate_pairs THEN raw ELSE DropDuplicates(raw)

NoPairs == [called |-> FALSE, module |-> <<>>, save_order |-> FALSE,
            duplicate_pairs |-> FALSE, df |-> <<>>]

\* generate_pairs(module, save_order, duplicate_pairs)
generate_pairs ==
    /\ ~pairs.called
    /\ pairs' = [pairs EXCEPT !.called = TRUE,
                              !.df = PairRows(pairs.module, pairs.save_order,
                                              pairs.duplicate_pairs)]
    /\ UNCHANGED <<dlvars, cfgvars, ctx, run>>

\* ------------------------------------------------- command line: cli
\* JSON values a config file can hold at top level.
JsonObject(d) == [t |-> "object", d |-> d]
JsonArray == [t |-> "array", d |-> EmptyDict]

\* The config files of the environment: what open() and json.load() come
\* to for each path (after expansion).
CustomConfig == Update(One("data_path", Str("/tmp/x")), One("hippie", CustomSection))
ConfigPaths == {"", "~/missing.json", "~/secret.json", "~/bad.json", "~/list.json",
                "~/empty.json", "~/custom.json"}
OpenError(path) ==
    IF path = HomeDir \o "/missing.json" THEN "FileNotFoundError"
    ELSE IF path = HomeDir \o "/secret.json" THEN "PermissionError"
    ELSE ""
Malformed(path) == path = HomeDir \o "/bad.json"
JsonOf(path) ==
    IF path = HomeDir \o "/list.json" THEN JsonArray
    ELSE IF path = HomeDir \o "/custom.json" THEN JsonObject(CustomConfig)
    ELSE JsonObject(EmptyDict)

\* os.path.expanduser(os.path.expandvars(config_path)), and expand_path
ExpandUser(path) ==
    IF Len(path) >= 2 /\ SubSeq(path, 1, 2) = "~/"
    THEN HomeDir \o SubSeq(path, 2, Len(path)) ELSE path

\* load_config_file(path): the parsed dict, or the exception raised.
load_config_file_Unchecked(path) ==
    LET cfg_path == ExpandUser(path)
    IN  IF OpenError(cfg_path) # "" THEN [exc |-> OpenError(cfg_path), data |-> JsonObject(EmptyDict)]
        ELSE IF Malformed(cfg_path) THEN [exc |-> "JSONDecodeError", data |-> JsonObject(EmptyDict)]
        ELSE [exc |-> "", data |-> JsonOf(cfg_path)]
load_config_file(path) ==
    LET cfg_path == ExpandUser(path)
    IN  IF OpenError(cfg_path) # "" THEN [exc |-> OpenError(cfg_path), data |-> JsonObject(EmptyDict)]
        ELSE IF Malformed(cfg_path) THEN [exc |-> "JSONDecodeError", data |-> JsonObject(EmptyDict)]
        ELSE IF JsonOf(cfg_path).t # "object"
        THEN [exc |-> "ValueError", data |-> JsonObject(EmptyDict)]
        ELSE [exc |-> "", data |-> JsonOf(cfg_path)]

NoCtx == [invoked |-> FALSE, config_path |-> "", obj |-> JsonObject(EmptyDict),
          echo |-> "", err |-> ""]

\* The group callback cli(ctx, config_path).
cli(config_path) ==
    /\ ~ctx.invoked
    /\ LET r == load_config_file(ExpandUser(config_path))
       IN  ctx' = IF config_path = ""
                  THEN [NoCtx EXCEPT !.invoked = TRUE]
                  ELSE IF r.exc = ""
                  THEN [NoCtx EXCEPT !.invoked = TRUE, !.config_path = config_path,
                                     !.obj = r.data, !.echo = "Loaded config"]
                  ELSE [NoCtx EXCEPT !.invoked = TRUE, !.config_path = config_path,
                                     !.err = "Config error: " \o r.exc]
    /\ UNCHANGED <<dlvars, cfgvars, run, pairs>>

\* ---------------------------------------------------- data adapters
\* setup.DATA_SOURCES, in its order.
DATA_SOURCES == <<"hippie", "biomart", "stringdb", "biogrid">>

\* A nested section of stringdb's META ("ppi", "protein"): its filename
\* and its url.
NestedFilename(section) == section \o ".txt.gz"
NestedUrl(section) == section \o "_url"

\* cfg = resolve_module_config(config, m, META) of an adapter.
AdapterCfg(config, m) == ResolvedConfig(DEFAULT_CONFIG, config, m, META[m])
AdapterDir(config, m) == AdapterCfg(config, m)["data_path"].s
AdapterDirs(config, ds) == Mkdir(Overlay(DEFAULT_CONFIG, config), ds)

\* The download_file calls of download(config) of the three file adapters.
Targets(config, m) ==
    LET sec == AdapterCfg(config, m)[m].d
    IN  IF m = "stringdb"
        THEN <<[url |-> NestedUrl(META[m].ppi), filename |-> NestedFilename(sec["ppi"])],
               [url |-> NestedUrl(META[m].protein), filename |-> NestedFilename(sec["protein"])]>>
        ELSE IF m = "biogrid"
        THEN <<[url |-> META[m].url, filename |-> META[m].folder_name]>>
        ELSE <<[url |-> META[m].url, filename |-> sec["filename"]]>>

\* is_ready(config) of each adapter.
IsReady(config, m, fs, ex) ==
    LET dp == AdapterDir(config, m)
    IN  IF m = "biogrid"
        THEN /\ <<dp, META[m].folder_name>> \in DOMAIN ex
             /\ META[m].file \in ex[<<dp, META[m].folder_name>>]
        ELSE \A i \in 1..Len(Targets(config, m)) :
                <<dp, Targets(config, m)[i].filename>> \in DOMAIN fs

\* pd.read_csv of a data file: it parses only the complete resource.
Loadable(fs, path, url) == path \in DOMAIN fs /\ fs[path] = Resource(url)

NoRun == [op |-> "none", src |-> "", k |-> 0, todo |-> <<>>, phase |-> "none",
          cont |-> "", outcome |-> NoRet, db_given |-> FALSE, found |-> FALSE,
          loads |-> {}, downloads |-> 0,
          db |-> <<>>, sources |-> <<>>, target |-> "", table |-> <<>>]

\* The config of the session: ctx.obj["config"].
SessionConfig == Config(ctx.obj.d)

RunIdle(p) == ctx.invoked /\ run.phase \in {"none", "done"} /\ pc[p] = "idle"

\* <adapter>.download(config), up to its first download call.
EnterDownload(r, m, cont, rest) ==
    [r EXCEPT !.src = m, !.k = 1, !.todo = rest, !.phase = "call", !.cont = cont,
              !.downloads = r.downloads + 1]

\* A call of <adapter>.download(config) by the user.
adapter_download(p, m) ==
    /\ RunIdle(p)
    /\ run' = EnterDownload([NoRun EXCEPT !.op = "download"], m, "return", <<>>)
    /\ ret' = [ret EXCEPT ![p] = NoRet]
    /\ dirs' = AdapterDirs(SessionConfig, dirs)
    /\ UNCHANGED <<files, extracted, pc, call, nreq, budget, cfgvars, ctx, pairs>>

\* The k-th download_file call of download(config), or its download_zip.
AdapterCall(p) ==
    /\ run.phase = "call"
    /\ pc[p] = "idle"
    /\ ret[p] = NoRet
    /\ LET t == Targets(SessionConfig, run.src)[run.k]
           dp == AdapterDir(SessionConfig, run.src)
       IN  IF run.src = "biogrid"
           THEN download_zip(p, t.url, t.filename, NoHash, dp)
           ELSE download_file(p, t.url, t.filename, NoHash, DefaultChunkSize, dp)

\* The steps that follow a finished download, by the caller of download.
AfterDownload(p, r) ==
    IF r.cont = "ensure"
    THEN IF r.todo # <<>>
         THEN /\ run' = EnterDownload(r, Head(r.todo), "ensure", Tail(r.todo))
              /\ ret' = [ret EXCEPT ![p] = NoRet]
         ELSE /\ run' = [r EXCEPT !.phase = "ppi"]
              /\ ret' = ret
    ELSE IF r.cont = "get"
    THEN run' = [r EXCEPT !.phase = "load_ppi"] /\ ret' = ret
    ELSE IF r.cont = "info"
    THEN run' = [r EXCEPT !.phase = "load_info"] /\ ret' = ret
    ELSE run' = [r EXCEPT !.phase = "done", !.outcome = Returned(NoPath)] /\ ret' = ret

\* A download call has finished: its exception leaves download(config)
\* and its callers; otherwise the next call, or the return.
AdapterReturn(p) ==
    /\ run.phase = "call"
    /\ pc[p] = "idle"
    /\ ret[p] # NoRet
    /\ IF ret[p].kind = "raise"
       THEN /\ run' = [run EXCEPT !.phase = "done", !.outcome = Raised(ret[p].exc)]
            /\ ret' = ret
       ELSE IF run.k < Len(Targets(SessionConfig, run.src))
       THEN /\ run' = [run EXCEPT !.k = run.k + 1]
            /\ ret' = [ret EXCEPT ![p] = NoRet]
       ELSE AfterDownload(p, run)
    /\ dirs' = AdapterDirs(SessionConfig, dirs)
    /\ UNCHANGED <<files, extracted, pc, call, nreq, budget, cfgvars, ctx, pairs>>

\* ---------------------------------------------------- ensure_all_data
\* The setup command: ensure_all_data(ctx.obj["config"]), up to the first
\* download.
ensure_all_data(p) ==
    /\ RunIdle(p)
    /\ LET missing == SelectSeq(DATA_SOURCES,
                          LAMBDA m : ~IsReady(SessionConfig, m, files, extracted))
           r == [NoRun EXCEPT !.op = "ensure_all_data"]
       IN  run' = IF missing = <<>> THEN [r EXCEPT !.phase = "ppi"]
                  ELSE EnterDownload(r, Head(missing), "ensure", Tail(missing))
    /\ ret' = [ret EXCEPT ![p] = NoRet]
    /\ dirs' = AdapterDirs(SessionConfig, dirs)
    /\ UNCHANGED <<files, extracted, pc, call, nreq, budget, cfgvars, ctx, pairs>>

\* ppi_missing = [src for src in PPI_BUILD if not
\* src.is_ready(config, "ppi_hgnc_filename")]: hippie.is_ready takes one
\* argument, so the call with two raises TypeError.
IsReadyParams == 1
PpiCallArgs == 2
EnsurePpi(p) ==
    /\ run.phase = "ppi"
    /\ run' = [run EXCEPT !.phase = "done",
                          !.outcome = IF PpiCallArgs > IsReadyParams
                                      THEN Raised("TypeError")
                                      ELSE Raised("AttributeError")]
    /\ UNCHANGED <<dlvars, cfgvars, ctx, pairs>>

\* ------------------------------------------------- stringdb.get_edges
\* get_edges(config, sources, db=db): found says whether a gene of sources
\* has a STRING protein id.  Up to the download or the first load.
get_edges(p, db_given, found) ==
    /\ RunIdle(p)
    /\ LET r == [NoRun EXCEPT !.op = "get_edges", !.db_given = db_given, !.found = found]
       IN  run' = IF db_given THEN [r EXCEPT !.phase = "info"]
                  ELSE IF IsReady(SessionConfig, "stringdb", files, extracted)
                  THEN [r EXCEPT !.phase = "load_ppi"]
                  ELSE EnterDownload(r, "stringdb", "get", <<>>)
    /\ ret' = [ret EXCEPT ![p] = NoRet]
    /\ dirs' = AdapterDirs(SessionConfig, dirs)
    /\ UNCHANGED <<files, extracted, pc, call, nreq, budget, cfgvars, ctx, pairs>>

\* pd.read_csv of the k-th STRING file (1: ppi in get, 2: protein info).
EdgesLoad(p, k, next) ==
    LET t == Targets(SessionConfig, "stringdb")[k]
        path == <<AdapterDir(SessionConfig, "stringdb"), t.filename>>
    IN  /\ run' = IF Loadable(files, path, t.url)
                  THEN [run EXCEPT !.phase = next, !.loads = @ \cup {path}]
                  ELSE [run EXCEPT !.phase = "done", !.outcome = Raised("ParserError")]
        /\ UNCHANGED <<dlvars, cfgvars, ctx, pairs>>

\* db_ppi = get(config), after its download: the load of the ppi file.
EdgesLoadPpi(p) == run.phase = "load_ppi" /\ EdgesLoad(p, 1, "info")

\* db_info = get_protein_info(config): it runs whether db was given or
\* not, and downloads when the protein file is missing.
EdgesInfo(p) ==
    /\ run.phase = "info"
    /\ LET t == Targets(SessionConfig, "stringdb")[2]
           path == <<AdapterDir(SessionConfig, "stringdb"), t.filename>>
       IN  run' = IF path \in DOMAIN files
                  THEN [run EXCEPT !.phase = "load_info"]
                  ELSE EnterDownload(run, "stringdb", "info", <<>>)
    /\ ret' = [ret EXCEPT ![p] = NoRet]
    /\ dirs' = AdapterDirs(SessionConfig, dirs)
    /\ UNCHANGED <<files, extracted, pc, call, nreq, budget, cfgvars, ctx, pairs>>

EdgesLoadInfo(p) == run.phase = "load_info" /\ EdgesLoad(p, 2, "edges")

\* The edge selection: without a matched source the empty table is
\* returned before db_ppi is read; db_ppi is bound only when db was None.
EdgesSelect(p) ==
    /\ run.phase = "edges"
    /\ run' = [run EXCEPT !.phase = "done",
                          !.outcome = IF ~run.found THEN Returned(NoPath)
                                      ELSE IF run.db_given THEN Raised("UnboundLocalError")
                                      ELSE Returned(NoPath)]
    /\ UNCHANGED <<dlvars, cfgvars, ctx, pairs>>

\* --------------------------------------------------- hippie.get_edges
MaxRows == 2
MaxSources == 2

\* gene_mapping: the Entrez id of each gene symbol, and back.
EntrezIds == {1, 2, 3}
symbol_to_entrez(gene) == IF gene = "A" THEN 1 ELSE IF gene = "B" THEN 2 ELSE 3
entrez_to_symbol(id) == IF id = 1 THEN "A" ELSE IF id = 2 THEN "B" ELSE "C"
NoTarget == "None"

\* The interaction rows a db can hold: <<entrez_id_1, entrez_id_2>>.
DbRows == EntrezIds \X EntrezIds

\* The positions of db, in db order; a mask selects among them.
Positions(db) == [k \in 1..Len(db) |-> k]

\* _get_edges_within_sources(db, sources)
WithinSources(db, ids) ==
    SelectSeq(Positions(db), LAMBDA k : db[k][1] \in ids /\ db[k][2] \in ids)

\* _get_edges_sources_to_target(db, sources, target)
SourcesToTarget(db, ids, t) ==
    SelectSeq(Positions(db), LAMBDA k : \/ (db[k][1] \in ids /\ db[k][2] = t)
                                        \/ (db[k][1] = t /\ db[k][2] \in ids))

\* The rows of one selection with their edge_type and symbol columns.
Typed(db, ix, type) ==
    [k \in 1..Len(ix) |-> [row |-> ix[k],
                           node1 |-> entrez_to_symbol(db[ix[k]][1]),
                           node2 |-> entrez_to_symbol(db[ix[k]][2]),
                           edge_type |-> type]]

\* The table get_edges returns for a db that was passed in, with
\* include_type: the within-sources rows, then the rows to the target.
EdgeTable(db, sources, target) ==
    LET ids == {symbol_to_entrez(sources[i]) : i \in 1..Len(sources)}
        within == Typed(db, WithinSources(db, ids), "within_cluster")
        to_target == IF target = NoTarget THEN <<>>
                     ELSE Typed(db, SourcesToTarget(db, ids, symbol_to_entrez(target)),
                                "to_target")
    IN  IF ids = {} THEN <<>> ELSE within \o to_target

\* hippie.get_edges(config, sources, target, db, gene_mapping)
hippie_get_edges ==
    /\ run.op = "hippie_get_edges"
    /\ run.phase = "args"
    /\ run' = [run EXCEPT !.phase = "done", !.outcome = Returned(NoPath),
                          !.table = EdgeTable(run.db, run.sources, run.target)]
    /\ UNCHANGED <<dlvars, cfgvars, ctx, pairs>>

\* ------------------------------------------------------ specifications

\* The file system, the callers and the configuration module at start.
BaseInit ==
    /\ dirs = {DEFAULT_DATA_DIR}
    /\ files = [q \in {} |-> <<>>]
    /\ extracted = [q \in {} |-> {}]
    /\ pc = [p \in Procs |-> "idle"]
    /\ call = [p \in Procs |-> BlankCall]
    /\ ret = [p \in Procs |-> NoRet]
    /\ nreq = [p \in Procs |-> 0]
    /\ budget = MaxFaults
    /\ DEFAULT_CONFIG = EmptyDict
    /\ META = InitMeta
    /\ userHeap = NoneConfig
    /\ resolved = NoResolution
    /\ history = NoResolution

Init ==
    /\ BaseInit
    /\ ctx = NoCtx
    /\ run = NoRun
    /\ pairs = NoPairs

\* What a request can come to.
Outcomes == {"connect_error", "http_error", "range_honoured", "range_ignored"}

\* Sequential calls of download_file by one caller, for one URL and
\* destination.
Next ==
    \E p \in SeqProcs :
        \/ \E eh \in ExpectedHashes(FileUrl), cs \in 1..MaxChunk, b \in BaseDirs :
              download_file(p, FileUrl, DataFile, eh, cs, b)
        \/ \E o \in Outcomes : DfRequest(p, o, FALSE)
        \/ DfChunk(p)
        \/ DfStreamFail(p, FALSE)
        \/ DfFinish(p)

Spec == Init /\ [][Next]_vars

\* Sequential calls of download_zip by one caller, for one extraction
\* folder, against a URL that serves an archive and one that serves a
\* corrupt one.
ZipNext ==
    \E p \in SeqProcs :
        \/ \E u \in {ZipUrl, CorruptUrl}, b \in BaseDirs :
              \E eh \in ZipHashes(u) :
                 download_zip(p, u, Folder, eh, b)
        \/ \E o \in Outcomes : DfRequest(p, o, FALSE)
        \/ DfChunk(p)
        \/ DfStreamFail(p, FALSE)
        \/ DfFinish(p)
        \/ \E done \in SUBSET Entries : DzExtract(p, done)

ZipSpec == Init /\ [][ZipNext]_vars

\* Configuration resolution, with the environment removing directories.
CfgNext ==
    \/ \E uc \in UserConfigs, m \in RecognizedModules, keep \in BOOLEAN :
          resolve_module_config(uc, m, META[m], keep)
    \/ \E d \in dirs : RemoveDir(d)

CfgSpec == Init /\ [][CfgNext]_vars

\* A caller that keeps re-invoking download_file for one target with the
\* hash of the resource, over a transport with at most MaxFaults transient
\* faults; every enabled step is eventually taken.
FairNext ==
    \E p \in SeqProcs :
        \/ \E cs \in 1..MaxChunk :
              download_file(p, FileUrl, DataFile, HashOf(Resource(FileUrl)), cs, NoneDir)
        \/ \E o \in Outcomes : DfRequest(p, o, TRUE)
        \/ DfChunk(p)
        \/ DfStreamFail(p, TRUE)
        \/ DfFinish(p)

FairSpec == Init /\ [][FairNext]_vars /\ WF_vars(FairNext)

\* Two callers (threads or processes) that invoke download_file for the
\* same URL and destination with the hash of the resource and the
\* default chunk size; their steps interleave freely, since the code takes
\* no lock.
ConcNext ==
    \E p \in Procs :
        \/ download_file(p, FileUrl, DataFile, HashOf(Resource(FileUrl)),
                         DefaultChunkSize, NoneDir)
        \/ \E o \in Outcomes : DfRequest(p, o, FALSE)
        \/ DfChunk(p)
        \/ DfStreamFail(p, FALSE)
        \/ DfFinish(p)

ConcSpec == Init /\ [][ConcNext]_vars

\* generate_pairs applied to every list of at most MaxGenes gene names and
\* every setting of its two flags.
PairInit ==
    /\ BaseInit
    /\ ctx = NoCtx
    /\ run = NoRun
    /\ \E m \in SeqsUpTo(Genes, MaxGenes), so \in BOOLEAN, dup \in BOOLEAN :
          pairs = [NoPairs EXCEPT !.module = m, !.save_order = so,
                                  !.duplicate_pairs = dup]

PairNext == generate_pairs

PairSpec == PairInit /\ [][PairNext]_vars

\* A session of the command line: the group callback, then the setup
\* command, which may be run again (a later invocation with the same
\* option); at most MaxFaults transport faults in all.
SetupNext ==
    \/ \E path \in ConfigPaths : cli(path)
    \/ \E p \in SeqProcs :
          \/ ensure_all_data(p)
          \/ AdapterCall(p)
          \/ AdapterReturn(p)
          \/ EnsurePpi(p)
          \/ \E o \in Outcomes : DfRequest(p, o, TRUE)
          \/ DfChunk(p)
          \/ DfStreamFail(p, TRUE)
          \/ DfFinish(p)
          \/ \E done \in SUBSET Entries : DzExtract(p, done)

SetupSpec == Init /\ [][SetupNext]_vars

\* A library user who holds one config dict and calls the adapters'
\* download and stringdb.get_edges in any order; at most MaxFaults
\* transport faults in all.
LibInit ==
    /\ BaseInit
    /\ \E d \in {EmptyDict, CustomConfig} :
          ctx = [NoCtx EXCEPT !.invoked = TRUE, !.obj = JsonObject(d)]
    /\ run = NoRun
    /\ pairs = NoPairs

LibNext ==
    \E p \in SeqProcs :
        \/ \E m \in RecognizedModules : adapter_download(p, m)
        \/ \E db_given \in BOOLEAN, found \in BOOLEAN : get_edges(p, db_given, found)
        \/ AdapterCall(p)
        \/ AdapterReturn(p)
        \/ EdgesLoadPpi(p)
        \/ EdgesInfo(p)
        \/ EdgesLoadInfo(p)
        \/ EdgesSelect(p)
        \/ \E o \in Outcomes : DfRequest(p, o, TRUE)
        \/ DfChunk(p)
        \/ DfStreamFail(p, TRUE)
        \/ DfFinish(p)
        \/ \E done \in SUBSET Entries : DzExtract(p, done)

LibSpec == LibInit /\ [][LibNext]_vars

\* hippie.get_edges applied to every db of at most MaxRows rows, every
\* list of at most MaxSources source genes and every target or none.
EdgeInit ==
    /\ BaseInit
    /\ ctx = NoCtx
    /\ pairs = NoPairs
    /\ \E db \in SeqsUpTo(DbRows, MaxRows), src \in SeqsUpTo(Genes, MaxSources),
          t \in Genes \cup {NoTarget} :
          run = [NoRun EXCEPT !.op = "hippie_get_edges", !.phase = "args",
                              !.db = db, !.sources = src, !.target = t]

EdgeNext == hippie_get_edges

EdgeSpec == EdgeInit /\ [][EdgeNext]_vars

\* ---------------------------------------------------------- properties
DataPathOf(b) == <<BaseDir(b), DataFile>>
FolderPathOf(b) == <<BaseDir(b), Folder>>

\* C1: a download_file call that finds the destination file present, with
\* no expected hash or with a hash equal to the expected one, ends at once:
\* no HTTP request, the file system as it was, base_dir/filename returned.
C1_PresentFileIsReturned ==
    [][\A p \in Procs, eh \in ExpectedHashes(FileUrl), cs \in 1..MaxChunk, b \in BaseDirs :
         (/\ DataPathOf(b) \in DOMAIN files
          /\ (~eh.given \/ Digest(files[DataPathOf(b)]) = eh.hex)
          /\ pc[p] = "idle"
          /\ call'[p].fn = "download_file"
          /\ download_file(p, FileUrl, DataFile, eh, cs, b))
         => (/\ pc'[p] = "idle"
             /\ nreq'[p] = 0
             /\ files' = files /\ dirs' = dirs /\ extracted' = extracted
             /\ ret'[p] = Returned(DataPathOf(b)))]_vars

\* A call with the expected hash of the resource returned the complete,
\* already present file without a request.
C1_Witness ==
    \E p \in Procs :
        /\ pc[p] = "idle"
        /\ call[p].fn = "download_file"
        /\ call[p].expected_hash = HashOf(Resource(FileUrl))
        /\ ret[p] = Returned(DfPath(call[p]))
        /\ nreq[p] = 0
        /\ DfPath(call[p]) \in DOMAIN files
        /\ files[DfPath(call[p])] = Resource(FileUrl)

\* C2: a download_file call that finds a partially written destination of
\* size N, 0 < N < ResLen, goes on to a request with resume offset N, and
\* when the transfer of a call resumed at such an N completes, the file
\* has the length of the resource.
C2_PartialFileIsResumed ==
    [][\A p \in Procs :
         /\ \A eh \in ExpectedHashes(FileUrl), cs \in 1..MaxChunk, b \in BaseDirs :
              (/\ DataPathOf(b) \in DOMAIN files
               /\ Len(files[DataPathOf(b)]) \in 1..(ResLen - 1)
               /\ pc[p] = "idle"
               /\ call'[p].fn = "download_file"
               /\ download_file(p, FileUrl, DataFile, eh, cs, b))
              => (/\ pc'[p] = "df_request"
                  /\ call'[p].resume_byte_pos = Len(files[DataPathOf(b)]))
         /\ (/\ pc[p] = "df_stream"
             /\ call[p].fn = "download_file"
             /\ call[p].resume_byte_pos \in 1..(ResLen - 1)
             /\ DfFinish(p))
            => (/\ DfPath(call[p]) \in DOMAIN files'
                /\ Len(files'[DfPath(call[p])]) = ResLen)]_vars

C4_ExtractedDirIsReturned ==
    [][\A p \in Procs, u \in {ZipUrl, CorruptUrl}, b \in BaseDirs :
         \A eh \in ZipHashes(u) :
           (/\ FolderPathOf(b) \in DOMAIN extracted
            /\ extracted[FolderPathOf(b)] # {}
            /\ pc[p] = "idle"
            /\ call'[p].fn = "download_zip"
            /\ download_zip(p, u, Folder, eh, b))
           => (/\ pc'[p] = "idle"
               /\ nreq'[p] = 0
               /\ files' = files /\ dirs' = dirs /\ extracted' = extracted
               /\ ret'[p] = Returned(FolderPathOf(b)))]_vars

\* download_zip returned a partly filled extraction directory at once and
\* the stale temporary archive is still there.
C4_Witness ==
    \E p \in Procs :
        /\ pc[p] = "idle"
        /\ call[p].fn = "download_zip"
        /\ ret[p] = Returned(ExtractPath(call[p]))
        /\ nreq[p] = 0
        /\ DfPath(call[p]) \in DOMAIN files
        /\ ExtractPath(call[p]) \in DOMAIN extracted
        /\ extracted[ExtractPath(call[p])] \notin {{}, Entries}

\* The section the user supplies for a module key: a dict under that key.
UserSection(uc, m) ==
    IF ~uc.none /\ m \in DOMAIN uc.d /\ uc.d[m].t = "dict" THEN uc.d[m].d ELSE EmptyDict

\* C5: in the resolved configuration the section of module_key holds, for
\* every key, the user's value when the user's section supplies the key and
\* the module default otherwise.
C5_UserKeysWinDefaultsStay ==
    resolved.returned =>
        LET m == resolved.module_key
            user == UserSection(resolved.user_config, m)
        IN  /\ m \in DOMAIN resolved.cfg
            /\ resolved.cfg[m].t = "dict"
            /\ DOMAIN resolved.cfg[m].d = DOMAIN user \cup DOMAIN InitMeta[m]
            /\ \A k \in DOMAIN resolved.cfg[m].d :
                  resolved.cfg[m].d[k] = IF k \in DOMAIN user THEN user[k] ELSE InitMeta[m][k]

\* {"data_path": "/tmp/x", "hippie": {"filename": "custom.txt"}} resolved
\* for hippie: the file name is the user's, the url the default.
C5_Witness ==
    /\ resolved.returned
    /\ resolved.module_key = "hippie"
    /\ UserSection(resolved.user_config, "hippie") = CustomSection.d
    /\ resolved.cfg["hippie"].d["filename"] = "custom.txt"
    /\ resolved.cfg["hippie"].d["url"] = "hippie_url"
    /\ resolved.cfg["data_path"] = PathOf("/tmp/x")

\* C6: a resolution with the user config and module key of an earlier
\* resolution yields the same configuration as the earlier one, whatever
\* was resolved in between.
C6_ResolutionIsIdempotent ==
    (/\ history.called
     /\ resolved.called
     /\ resolved.user_config = history.user_config
     /\ resolved.module_key = history.module_key)
    => (/\ resolved.returned = history.returned
        /\ resolved.cfg = history.cfg)

\* The inputs of an earlier resolution were resolved again after another
\* resolution had run.
C6_Witness ==
    /\ resolved.returned
    /\ resolved.repeat
    /\ history.between
    /\ ~resolved.user_config.none
    /\ resolved.user_config = history.user_config
    /\ resolved.module_key = history.module_key

\* C7: when resolve_module_config returns, the directory named by the
\* result's data_path exists.
C7_DataPathExists ==
    [][\A uc \in UserConfigs, m \in RecognizedModules, keep \in BOOLEAN :
         (resolve_module_config(uc, m, META[m], keep) /\ resolved'.returned)
         => resolved'.cfg["data_path"].s \in dirs']_vars

\* C8 as stated: every recognized module key is present in the resolved
\* configuration with at least its defaults.
C8_AllModulesPresent ==
    resolved.returned =>
        \A m \in RecognizedModules :
            /\ m \in DOMAIN resolved.cfg
            /\ resolved.cfg[m].t = "dict"
            /\ DOMAIN InitMeta[m] \subseteq DOMAIN resolved.cfg[m].d

\* C8: the module key passed to the call is present with at least its
\* default keys; another module key is present exactly when the user
\* configuration has it, with the user's value.
C8_RequestedModulePresent ==
    resolved.returned =>
        /\ resolved.module_key \in DOMAIN resolved.cfg
        /\ resolved.cfg[resolved.module_key].t = "dict"
        /\ DOMAIN InitMeta[resolved.module_key]
              \subseteq DOMAIN resolved.cfg[resolved.module_key].d
        /\ \A m \in RecognizedModules \ {resolved.module_key} :
              /\ m \in DOMAIN resolved.cfg
                    <=> (~resolved.user_config.none /\ m \in DOMAIN resolved.user_config.d)
              /\ m \in DOMAIN resolved.cfg => resolved.cfg[m] = resolved.user_config.d[m]

\* A resolution for biomart of a user config that has only a hippie
\* section: biomart holds its defaults, stringdb and biogrid are missing.
C8_Witness ==
    /\ resolved.returned
    /\ resolved.module_key = "biomart"
    /\ resolved.cfg["biomart"] = Dict(BiomartMeta)
    /\ "hippie" \in DOMAIN resolved.cfg
    /\ "stringdb" \notin DOMAIN resolved.cfg

\* C9: whatever download_file calls ran against the URL and destination,
\* the destination file holds a prefix of the resource's bytes, or all of
\* them, and nothing else.
C9_FileIsPrefixOfResource ==
    \A q \in DOMAIN files :
        q[2] = DataFile => IsPrefix(files[q], Resource(FileUrl))

\* C10: a caller that keeps re-invoking download_file with the hash of the
\* resource, once the transport stops failing, eventually has the complete
\* file on disk and keeps it from then on.
C10_EventuallyCompleteForever ==
    <>[](/\ DataPathOf(NoneDir) \in DOMAIN files
         /\ files[DataPathOf(NoneDir)] = Resource(FileUrl))

\* C11: a download_zip call that finds the extraction directory absent or
\* empty removes a stale temporary archive before it downloads, and when
\* it returns, every archive entry is in the extraction directory, which
\* exists and is returned, and the temporary archive is gone.
C11_FreshExtraction ==
    [][\A p \in SeqProcs :
         /\ \A u \in {ZipUrl, CorruptUrl}, b \in BaseDirs : \A eh \in ZipHashes(u) :
              (/\ pc[p] = "idle"
               /\ (FolderPathOf(b) \notin DOMAIN extracted \/ extracted[FolderPathOf(b)] = {})
               /\ call'[p].fn = "download_zip"
               /\ download_zip(p, u, Folder, eh, b))
              => (/\ pc'[p] = "df_request"
                  /\ <<BaseDir(b), ZipName(Folder)>> \notin DOMAIN files'
                  /\ call'[p].resume_byte_pos = 0)
         /\ (/\ pc[p] = "dz_extract"
             /\ pc'[p] = "idle"
             /\ ret'[p].kind = "return")
            => (/\ ret'[p].path = ExtractPath(call[p])
                /\ ExtractPath(call[p]) \in DOMAIN extracted'
                /\ Entries \subseteq extracted'[ExtractPath(call[p])]
                /\ DfPath(call[p]) \notin DOMAIN files'
                /\ nreq'[p] = 1)]_vars

\* download_zip downloaded the archive, extracted it and returned.
C11_Witness ==
    \E p \in SeqProcs :
        /\ pc[p] = "idle"
        /\ call[p].fn = "download_zip"
        /\ ret[p] = Returned(ExtractPath(call[p]))
        /\ nreq[p] = 1
        /\ extracted[ExtractPath(call[p])] = Entries
        /\ DfPath(call[p]) \notin DOMAIN files

\* C12: when the downloaded archive is corrupt, download_zip raises
\* BadZipFile and leaves the temporary archive on disk, and the next
\* download_zip call for the folder does not return it as already done.
C12_CorruptArchive ==
    [][\A p \in SeqProcs :
         /\ (/\ pc[p] = "dz_extract"
             /\ DfPath(call[p]) \in DOMAIN files
             /\ ~IsSuffix(Resource(ZipUrl), files[DfPath(call[p])])
             /\ pc'[p] # pc[p])
            => (/\ ret'[p] = Raised("BadZipFile")
                /\ files' = files)
         /\ \A u \in {ZipUrl, CorruptUrl}, b \in BaseDirs : \A eh \in ZipHashes(u) :
              (/\ pc[p] = "idle"
               /\ ret[p] = Raised("BadZipFile")
               /\ call'[p].fn = "download_zip"
               /\ download_zip(p, u, Folder, eh, b))
              => pc'[p] = "df_request"]_vars

\* download_zip raised BadZipFile; the temporary archive holds the corrupt
\* bytes and the extraction directory is empty.
C12_Witness ==
    \E p \in SeqProcs :
        /\ pc[p] = "idle"
        /\ call[p].fn = "download_zip"
        /\ ret[p] = Raised("BadZipFile")
        /\ DfPath(call[p]) \in DOMAIN files
        /\ files[DfPath(call[p])] = Resource(CorruptUrl)
        /\ ExtractPath(call[p]) \in DOMAIN extracted
        /\ extracted[ExtractPath(call[p])] = {}

\* C13: an invocation issues at most one HTTP request, and a request that
\* fails (connection error or error status) ends it with the error raised.
C13_NoRetry ==
    [][\A p \in SeqProcs :
         /\ nreq'[p] <= 1
         /\ (pc[p] = "df_request" /\ pc'[p] # "df_stream")
            => (/\ pc'[p] = "idle"
                /\ ret'[p].kind = "raise"
                /\ ret'[p].exc \in {"ConnectionError", "HTTPError"})]_vars

\* An invocation ended with the HTTP error of its only request.
C13_Witness ==
    \E p \in SeqProcs :
        /\ pc[p] = "idle"
        /\ call[p].fn = "download_file"
        /\ ret[p] = Raised("HTTPError")
        /\ nreq[p] = 1

\* The resume invariant of a streaming invocation: the destination holds
\* the bytes that were there when the request was sent plus the bytes this
\* invocation has written since.
ResumeInvariant(p) ==
    pc[p] = "df_stream"
    => /\ DfPath(call[p]) \in DOMAIN files
       /\ Len(files[DfPath(call[p])]) = call[p].resume_byte_pos + call[p].pos

\* C16: invocations on one destination are not coordinated. While a
\* single caller has invoked download_file the resume invariant holds at
\* every step of the transfer; with a second caller at work on the same
\* path there is no such guarantee (C16_Witness is such an interleaving).
C16_ResumeInvariantOfLoneCaller ==
    \A p \in Procs :
        (\A q \in Procs \ {p} : call[q].fn = "none") => ResumeInvariant(p)

\* Two invocations were at work on the path; one of them has streamed to
\* the end with its resume invariant broken, and the file it leaves is not
\* the resource.
C16_Witness ==
    \E p \in Procs : \E q \in Procs \ {p} :
        /\ call[q].fn = "download_file"
        /\ DfPath(call[q]) = DfPath(call[p])
        /\ pc[p] = "df_stream"
        /\ call[p].body = <<>>
        /\ ~ResumeInvariant(p)
        /\ files[DfPath(call[p])] # Resource(call[p].url)

\* The data_path entry of the user configuration a resolution was called
\* with, if it has one.
UserGivesPath(uc) == ~uc.none /\ "data_path" \in DOMAIN uc.d
UserPath(uc) == uc.d["data_path"]

\* What expanding the home-directory shorthand of a user path gives.
ExpandedUserPath(v) == IF v.s \in {"~/d", "$HOME/d"} THEN "/home/u/d" ELSE v.s

\* C18 as stated: a data_path the user provides and that is not the empty
\* string is the one used, expanded; the default directory is used only
\* when none is provided or it is empty.
C18_NonEmptyPathIsUsed ==
    resolved.returned =>
        /\ (UserGivesPath(resolved.user_config) /\ UserPath(resolved.user_config) # Str(""))
           => resolved.cfg["data_path"] = PathOf(ExpandedUserPath(UserPath(resolved.user_config)))
        /\ resolved.default_dir_used
           => (~UserGivesPath(resolved.user_config) \/ UserPath(resolved.user_config) = Str(""))

\* C18: a data_path the user provides is used, expanded, when it is a
\* string with a character other than white space; the default directory
\* is used when none is provided, when it is not a string, and when it is
\* empty or all white space.
C18_NonBlankStringPathIsUsed ==
    resolved.returned =>
        LET given == /\ UserGivesPath(resolved.user_config)
                     /\ UserPath(resolved.user_config).t = "str"
                     /\ UserPath(resolved.user_config).s \notin {"", "  "}
        IN  /\ given => /\ resolved.cfg["data_path"] =
                              PathOf(ExpandedUserPath(UserPath(resolved.user_config)))
                        /\ ~resolved.default_dir_used
            /\ ~given => /\ resolved.cfg["data_path"] = PathOf(DEFAULT_DATA_DIR)
                         /\ resolved.default_dir_used

\* Resolutions have returned: one with the expanded path of the user, and
\* before it one of an all-blank data_path that got the default directory.
C18_Witness ==
    /\ resolved.returned
    /\ UserGivesPath(resolved.user_config)
    /\ UserPath(resolved.user_config) = Str("~/d")
    /\ resolved.cfg["data_path"] = PathOf("/home/u/d")
    /\ history.returned
    /\ UserGivesPath(history.user_config)
    /\ UserPath(history.user_config) = Str("  ")
    /\ history.cfg["data_path"] = PathOf(DEFAULT_DATA_DIR)

\* The gene names of the list, and the rows that pair two given genes.
GenesOf(module) == {module[i] : i \in 1..Len(module)}
RowsOf(df, a, b) == {k \in 1..Len(df) : df[k] = <<a, b>>}

\* C19: generate_pairs returns no row with gene1 = gene2, whatever the
\* list; without save_order no pair appears together with its reverse, and
\* with duplicates dropped each two distinct genes of the list make one
\* row; with save_order every two distinct genes make the rows of both
\* orders.
C19_NoSelfPairNoReverse ==
    pairs.called =>
        /\ \A k \in 1..Len(pairs.df) : pairs.df[k][1] # pairs.df[k][2]
        /\ \A a \in GenesOf(pairs.module) : \A b \in GenesOf(pairs.module) \ {a} :
              IF pairs.save_order
              THEN RowsOf(pairs.df, a, b) # {} /\ RowsOf(pairs.df, b, a) # {}
              ELSE /\ RowsOf(pairs.df, a, b) = {} \/ RowsOf(pairs.df, b, a) = {}
                   /\ ~pairs.duplicate_pairs
                      => Cardinality(RowsOf(pairs.df, a, b) \cup RowsOf(pairs.df, b, a)) = 1

\* Config paths whose file cannot be opened, is not JSON, or holds a JSON
\* value that is not an object.
BadConfigPaths == {"~/missing.json", "~/secret.json", "~/bad.json", "~/list.json"}

\* C14: given a config path whose file is unreadable, malformed or not a
\* JSON object, the group callback reports the error as a message and
\* goes on with the configuration {}; with no config path the
\* configuration is {} as well, and no error is reported.
C14_ConfigErrorFallsBackToEmpty ==
    ctx.invoked =>
        /\ ctx.config_path \in BadConfigPaths
           => /\ ctx.obj = JsonObject(EmptyDict)
              /\ ctx.err # ""
              /\ ctx.echo = ""
        /\ ctx.config_path = ""
           => /\ ctx.obj = JsonObject(EmptyDict)
              /\ ctx.err = ""

\* The group callback was given a file that holds a JSON array; it
\* reported the error, and the setup command has run with the default
\* data directory.
C14_Witness ==
    /\ ctx.invoked
    /\ ctx.config_path = "~/list.json"
    /\ ctx.err = "Config error: ValueError"
    /\ ctx.obj = JsonObject(EmptyDict)
    /\ run.op = "ensure_all_data"
    /\ run.phase = "done"
    /\ <<DEFAULT_DATA_DIR, "hippie_ppi.txt">> \in DOMAIN files

\* Exceptions of a failed download: transport, HTTP status, disk.
DownloadErrors == {"ConnectionError", "HTTPError", "OSError", "BadZipFile",
                   "FileNotFoundError", "ValueError"}

\* C15: when no download fails, ensure_all_data completes normally, and
\* then is_ready holds for every source of DATA_SOURCES.
C15_SetupMakesAllReady ==
    (/\ run.op = "ensure_all_data"
     /\ run.phase = "done"
     /\ run.outcome.exc \notin DownloadErrors)
    => /\ run.outcome.kind = "return"
       /\ \A i \in 1..Len(DATA_SOURCES) :
             IsReady(SessionConfig, DATA_SOURCES[i], files, extracted)

\* C17: get_edges returns an edge table unless a download or a load it
\* had to make failed, and with a db argument it makes no load and no
\* download.
C17_EdgesFromGivenDb ==
    (run.op = "get_edges" /\ run.phase = "done")
    => /\ run.outcome.exc \notin (DownloadErrors \cup {"ParserError"})
          => run.outcome.kind = "return"
       /\ run.db_given => (run.loads = {} /\ run.downloads = 0)

\* C20: when download(config) of an adapter has returned normally,
\* is_ready(config) of that adapter is true.
C20_DownloadedMeansReady ==
    (/\ run.op = "download"
     /\ run.phase = "done"
     /\ run.outcome.kind = "return")
    => IsReady(SessionConfig, run.src, files, extracted)

\* C21: an invocation that ends with a transport or HTTP-status error
\* leaves the destination as the call found it: a failure of the request
\* changes no file, and a failure while the body is streamed leaves the
\* destination with the bytes it had when the request was sent.
C21_FailedDownloadLeavesDestination ==
    [][\A p \in SeqProcs :
         (/\ pc[p] \in {"df_request", "df_stream"}
          /\ pc'[p] = "idle"
          /\ ret'[p].kind = "raise"
          /\ ret'[p].exc \in {"ConnectionError", "HTTPError"})
         => /\ pc[p] = "df_request" => files' = files
            /\ pc[p] = "df_stream"
               => /\ DfPath(call[p]) \in DOMAIN files'
                  /\ Len(files'[DfPath(call[p])]) = call[p].resume_byte_pos]_vars

\* C22: after any sequence of resolve_module_config calls the caller's
\* user_config (with its nested sections) holds what was passed in, every
\* adapter's META holds its defaults, and DEFAULT_CONFIG is as the module
\* defines it.
C22_InputsAndDefaultsUnchanged ==
    /\ DEFAULT_CONFIG = EmptyDict
    /\ META = InitMeta
    /\ resolved.called => userHeap = resolved.user_config

\* A resolution that merged: the user's hippie section has one key, the
\* resolved one has the defaults as well and a data_path was added, and
\* the user's mapping and META are as before.
C22_Witness ==
    /\ resolved.returned
    /\ resolved.module_key = "hippie"
    /\ ~resolved.user_config.none
    /\ "hippie" \in DOMAIN resolved.user_config.d
    /\ resolved.user_config.d["hippie"] = CustomSection
    /\ resolved.cfg["hippie"] # CustomSection
    /\ resolved.cfg["hippie"].d["filename"] = "custom.txt"
    /\ resolved.cfg["data_path"].t = "path"
    /\ userHeap = resolved.user_config
    /\ META["hippie"] = HippieMeta

\* The table rows that come from position k of the db.
TableRowsOf(k) == {i \in 1..Len(run.table) : run.table[i].row = k}

\* C23: in the table hippie.get_edges returns, every row of the db
\* appears at most once, with edge_type 'within_cluster' when both its
\* endpoints are source genes and 'to_target' when one is a source gene
\* and the other is the target; also when the target is one of the
\* sources.
C23_EachRowOnceWithOneType ==
    (run.op = "hippie_get_edges" /\ run.phase = "done")
    => \A k \in 1..Len(run.db) :
          LET src == {run.sources[i] : i \in 1..Len(run.sources)}
              a == entrez_to_symbol(run.db[k][1])
              b == entrez_to_symbol(run.db[k][2])
          IN  /\ Cardinality(TableRowsOf(k)) <= 1
              /\ \A i \in TableRowsOf(k) :
                    /\ run.table[i].edge_type = "within_cluster"
                       => (a \in src /\ b \in src)
                    /\ run.table[i].edge_type = "to_target"
                       => \/ (a \in src /\ b = run.target)
                          \/ (a = run.target /\ b \in src)

====
